---- MODULE Spec2Model ----
(***************************************************************************)
(* Adjacency construction of meshless/espim/read_mesh.py: read_mesh (a     *)
(* parsed Nastran deck) and read_delaunay (a point cloud and its index     *)
(* triples).  Both derive the edges of the triangles, link every edge to   *)
(* its supporting triangles and fill the back references of the nodes and  *)
(* of the triangles.                                                       *)
(*                                                                         *)
(* Python objects are modelled by their identity: a node by its nid, a     *)
(* triangle by its eid, an Edge by the number of the Edge(...) call that   *)
(* created it.  A dict is the sequence of its entries in insertion order   *)
(* (the iteration order of dict and defaultdict).  The prop attributes,    *)
(* tria.nodes / nodes_ref and the progress messages take no part in the    *)
(* adjacency and are left out.                                             *)
(***************************************************************************)
EXTENDS Integers, Sequences, FiniteSets, TLC

\* ---------------------------------------------------------------- bounds
\* size of an input: its number of nodes plus its number of elements
MaxSize == 6

\* ------------------------------------------------------- python helpers
Range(s) == {s[i] : i \in 1..Len(s)}

\* tuple(sorted([a, b]))
SortedPair(a, b) == IF a <= b THEN <<a, b>> ELSE <<b, a>>

\* index of key in the dict d (0 when absent)
DictFind(d, key) ==
    IF \E i \in 1..Len(d) : d[i].key = key
    THEN CHOOSE i \in 1..Len(d) : d[i].key = key
    ELSE 0

\* the list grows at its front
DefaultDictAppendFront(d, key, v) ==
    LET i == DictFind(d, key)
    IN  IF i = 0 THEN Append(d, [key |-> key, val |-> <<v>>])
        ELSE [d EXCEPT ![i].val = <<v>> \o @]

\* d[key].append(v) on a defaultdict(list)
DefaultDictAppend(d, key, v) ==
    LET i == DictFind(d, key)
    IN  IF i = 0 THEN Append(d, [key |-> key, val |-> <<v>>])
        ELSE [d EXCEPT ![i].val = Append(@, v)]

\* d[key] = v on a dict
DictSet(d, key, v) ==
    LET i == DictFind(d, key)
    IN  IF i = 0 THEN Append(d, [key |-> key, val |-> v])
        ELSE [d EXCEPT ![i].val = v]

\* CTRIA3.get_edge_ids(): the three sides in local order, each sorted
GetEdgeIds(node_ids) ==
    << SortedPair(node_ids[1], node_ids[2]),
       SortedPair(node_ids[2], node_ids[3]),
       SortedPair(node_ids[3], node_ids[1]) >>

\* Edge(n1, n2): a new object holding its two end nodes and no triangles
NewEdge(id, n1, n2) == [id |-> id, n1 |-> n1, n2 |-> n2, trias |-> <<>>]

\* ----------------------------------------------------------------- state
VARIABLES
    path,        \* "read_mesh" or "read_delaunay"
    elements,    \* read_mesh: mesh.elements after read_bdf, in eid order
    points,      \* read_delaunay: the point cloud
    simplices,   \* read_delaunay: tri.simplices, 0-based index triples
    pc,          \* position in the function
    nodes,       \* mesh.nodes: nid -> xyz of the GRID
    node_trias,  \* nid -> node.trias, for the nodes that have the attribute
    node_edges,  \* nid -> node.edges (a set of Edge identities)
    node_index,  \* nid -> node.index
    trias,       \* the list trias: [eid, node_ids] records
    tria_edges,  \* eid -> tria.edges (a list of Edge identities)
    edges_ids,   \* the defaultdict edges_ids: key -> list of eids
    edges,       \* the dict edges: key -> Edge
    mesh_edges,  \* mesh.edges (assigned right before the return)
    ret          \* "none", "mesh" or "NotImplementedError"

vars == <<path, elements, points, simplices, pc, nodes, node_trias, node_edges,
          node_index, trias, tria_edges, edges_ids, edges, mesh_edges, ret>>

\* ---------------------------------------------------------------- inputs
BSeq(S, n) == UNION {[1..k -> S] : k \in 0..n}

Distinct3(t) == t[1] # t[2] /\ t[2] # t[3] /\ t[1] # t[3]

NodeIds(n) == 1..n

\* the CTRIA3 cards of a deck of n grid points, three different points each
Ctria3Cards(n) ==
    {[type |-> "CTRIA3", node_ids |-> t] :
        t \in {u \in NodeIds(n) \X NodeIds(n) \X NodeIds(n) : Distinct3(u)}}

\* cards of other element types: a quadrilateral, a rod
OtherCards(n) ==
    (IF n >= 4 THEN {[type |-> "CQUAD4", node_ids |-> <<1, 2, 3, 4>>]} ELSE {})
    \cup (IF n >= 2 THEN {[type |-> "CROD", node_ids |-> <<1, 2>>]} ELSE {})

\* coordinates of the n grid points of the deck
DeckNodes(n) == [k \in NodeIds(n) |-> <<k, k * k, 1>>]

\* the cloud of n points handed to the triangulation, 2D or 3D
Cloud(n, ndim) ==
    [p \in 1..n |-> IF ndim = 2 THEN <<p, p * p>> ELSE <<p, p * p, 1>>]

PointIdx(n) == 0..(n - 1)

\* simplices of a triangulation: three different point indices each
Simplices(n) == {u \in PointIdx(n) \X PointIdx(n) \X PointIdx(n) : Distinct3(u)}

\* index triples of any kind, repeated indices included
AnyTriples(n) == PointIdx(n) \X PointIdx(n) \X PointIdx(n)

Fresh ==
    /\ pc = "start"
    /\ node_trias = <<>> /\ node_edges = <<>> /\ node_index = <<>>
    /\ trias = <<>> /\ tria_edges = <<>>
    /\ edges_ids = <<>> /\ edges = <<>> /\ mesh_edges = <<>>
    /\ ret = "none"

InitMesh ==
    /\ path = "read_mesh"
    /\ \E n \in 0..MaxSize :
          /\ nodes = DeckNodes(n)
          /\ elements \in BSeq(Ctria3Cards(n) \cup OtherCards(n), MaxSize - n)
    /\ points = <<>> /\ simplices = <<>>
    /\ Fresh

InitDelaunay ==
    /\ path = "read_delaunay"
    /\ elements = <<>>
    /\ \E n \in 0..MaxSize : \E ndim \in {2, 3} :
          /\ points = Cloud(n, ndim)
          /\ simplices \in BSeq(Simplices(n), MaxSize - n)
    /\ nodes = <<>>
    /\ Fresh

Init == InitMesh \/ InitDelaunay

\* read_delaunay on index triples that were not checked to be triangles
InitMalformed ==
    /\ path = "read_delaunay"
    /\ elements = <<>>
    /\ \E n \in 0..MaxSize : \E ndim \in {2, 3} :
          /\ points = Cloud(n, ndim)
          /\ simplices \in BSeq(AnyTriples(n), MaxSize - n)
    /\ nodes = <<>>
    /\ Fresh

\* ------------------------------------------------- the loops of the code
\* an element of another type is skipped
RECURSIVE CollectTriasSkip(_, _, _)
CollectTriasSkip(elems, i, acc) ==
    IF i > Len(elems) THEN [raised |-> FALSE, trias |-> acc]
    ELSE IF elems[i].type = "CTRIA3"
    THEN CollectTriasSkip(elems, i + 1,
                          Append(acc, [eid |-> Len(acc) + 1, node_ids |-> elems[i].node_ids]))
    ELSE CollectTriasSkip(elems, i + 1, acc)

\* for elem in mesh.elements.values(): keep CTRIA3, raise on anything else
RECURSIVE CollectTrias(_, _, _)
CollectTrias(elems, i, acc) ==
    IF i > Len(elems) THEN [raised |-> FALSE, trias |-> acc]
    ELSE IF elems[i].type = "CTRIA3"
    THEN CollectTrias(elems, i + 1,
                      Append(acc, [eid |-> i, node_ids |-> elems[i].node_ids]))
    ELSE [raised |-> TRUE, trias |-> acc]

\* for edge_id in tria.get_edge_ids(): edges_ids[edge_id].append(tria)
RECURSIVE AppendEdgeIds(_, _, _, _)
AppendEdgeIds(d, ids, j, eid) ==
    IF j > Len(ids) THEN d
    ELSE AppendEdgeIds(DefaultDictAppend(d, ids[j], eid), ids, j + 1, eid)

\* for tria in trias: ... group the triangles by edge id
RECURSIVE GroupTrias(_, _, _)
GroupTrias(ts, i, d) ==
    IF i > Len(ts) THEN d
    ELSE GroupTrias(ts, i + 1, AppendEdgeIds(d, GetEdgeIds(ts[i].node_ids), 1, ts[i].eid))

\* the Edge is added to the edges of its first end node only
RECURSIVE CreateEdgesOneEnd(_, _, _, _)
CreateEdgesOneEnd(eids, i, es, ne) ==
    IF i > Len(eids) THEN [edges |-> es, node_edges |-> ne]
    ELSE LET n1 == eids[i].key[1]
             n2 == eids[i].key[2]
             edge == [NewEdge(i, n1, n2) EXCEPT !.trias = eids[i].val]
             ne1 == [ne EXCEPT ![n1] = @ \cup {edge.id}]
         IN  CreateEdgesOneEnd(eids, i + 1, DictSet(es, <<n1, n2>>, edge), ne1)

\* the Edge is stored under (n1, n1)
RECURSIVE CreateEdgesKeyTypo(_, _, _, _)
CreateEdgesKeyTypo(eids, i, es, ne) ==
    IF i > Len(eids) THEN [edges |-> es, node_edges |-> ne]
    ELSE LET n1 == eids[i].key[1]
             n2 == eids[i].key[2]
             edge == [NewEdge(i, n1, n2) EXCEPT !.trias = eids[i].val]
             ne1 == [ne EXCEPT ![n1] = @ \cup {edge.id}]
             ne2 == [ne1 EXCEPT ![n2] = @ \cup {edge.id}]
         IN  CreateEdgesKeyTypo(eids, i + 1, DictSet(es, <<n1, n1>>, edge), ne2)

\* for (n1, n2), e_trias in edges_ids.items(): create the Edge, store it
\* under its key and add it to the edges of its two end nodes
RECURSIVE CreateEdges(_, _, _, _)
CreateEdges(eids, i, es, ne) ==
    IF i > Len(eids) THEN [edges |-> es, node_edges |-> ne]
    ELSE LET n1 == eids[i].key[1]
             n2 == eids[i].key[2]
             edge == [NewEdge(i, n1, n2) EXCEPT !.trias = eids[i].val]
             ne1 == [ne EXCEPT ![n1] = @ \cup {edge.id}]
             ne2 == [ne1 EXCEPT ![n2] = @ \cup {edge.id}]
         IN  CreateEdges(eids, i + 1, DictSet(es, <<n1, n2>>, edge), ne2)

\* only the first supporting triangle gets the Edge
AppendToFirstTria(te, ets, j, edgeid) ==
    IF ets = <<>> THEN te ELSE [te EXCEPT ![ets[1]] = Append(@, edgeid)]

\* for tria in edge.trias: tria.edges.append(edge)
RECURSIVE AppendToTrias(_, _, _, _)
AppendToTrias(te, ets, j, edgeid) ==
    IF j > Len(ets) THEN te
    ELSE AppendToTrias([te EXCEPT ![ets[j]] = Append(@, edgeid)], ets, j + 1, edgeid)

\* for edge in edges.values(): ...
RECURSIVE AttachEdges(_, _, _)
AttachEdges(es, i, te) ==
    IF i > Len(es) THEN te
    ELSE AttachEdges(es, i + 1, AppendToTrias(te, es[i].val.trias, 1, es[i].val.id))

\* only the first node of the triangle gets the triangle
AddTriaToFirstNode(nt, nids, j, eid) ==
    [nt EXCEPT ![nids[1]] = @ \cup {eid}]

\* for nid in tria.node_ids: mesh.nodes[nid].trias.add(tria.eid)
RECURSIVE AddTriaToNodes(_, _, _, _)
AddTriaToNodes(nt, nids, j, eid) ==
    IF j > Len(nids) THEN nt
    ELSE AddTriaToNodes([nt EXCEPT ![nids[j]] = @ \cup {eid}], nids, j + 1, eid)

\* for tria in trias: ...
RECURSIVE FillNodeTrias(_, _, _)
FillNodeTrias(ts, i, nt) ==
    IF i > Len(ts) THEN nt
    ELSE FillNodeTrias(ts, i + 1, AddTriaToNodes(nt, ts[i].node_ids, 1, ts[i].eid))

\* for pt in points: one GRID per point, nid counted from 1, 2D points
\* get a zero third coordinate
RECURSIVE DelaunayNodes(_, _, _)
DelaunayNodes(pts, nid, acc) ==
    IF nid >= Len(pts) THEN acc
    ELSE LET pt == pts[nid + 1]
             xyz == IF Len(pt) = 2 THEN <<pt[1], pt[2], 0>> ELSE pt
         IN  DelaunayNodes(pts, nid + 1, Append(acc, xyz))

\* the 0-based point indices are taken for node ids
RECURSIVE DelaunayTriasZeroBased(_, _, _)
DelaunayTriasZeroBased(simps, eid, acc) ==
    IF eid >= Len(simps) THEN acc
    ELSE LET s == simps[eid + 1]
         IN  DelaunayTriasZeroBased(simps, eid + 1,
                 Append(acc, [eid |-> eid + 1, node_ids |-> <<s[1], s[2], s[3]>>]))

\* the triangle is built over (n1, n3, n2)
RECURSIVE DelaunayTriasSwapped(_, _, _)
DelaunayTriasSwapped(simps, eid, acc) ==
    IF eid >= Len(simps) THEN acc
    ELSE LET s == simps[eid + 1]
         IN  DelaunayTriasSwapped(simps, eid + 1,
                 Append(acc, [eid |-> eid + 1,
                              node_ids |-> <<s[1] + 1, s[3] + 1, s[2] + 1>>]))

\* for i1, i2, i3 in tri.simplices: one CTRIA3 per triple, eid counted
\* from 1, over the nids of nodes[i1], nodes[i2], nodes[i3]
RECURSIVE DelaunayTrias(_, _, _)
DelaunayTrias(simps, eid, acc) ==
    IF eid >= Len(simps) THEN acc
    ELSE LET s == simps[eid + 1]
             nid(i) == i + 1      \* nodes[i].nid: the list nodes is 0-based
         IN  DelaunayTrias(simps, eid + 1,
                 Append(acc, [eid |-> eid + 1,
                              node_ids |-> <<nid(s[1]), nid(s[2]), nid(s[3])>>]))

\* ------------------------------------------------------------- read_mesh
\* lines 27-31: every node gets empty trias, edges and index sets
TagNodes ==
    /\ path = "read_mesh" /\ pc = "start"
    /\ node_trias' = [n \in DOMAIN nodes |-> {}]
    /\ node_edges' = [n \in DOMAIN nodes |-> {}]
    /\ node_index' = [n \in DOMAIN nodes |-> {}]
    /\ pc' = "collect"
    /\ UNCHANGED <<path, elements, points, simplices, nodes, trias, tria_edges,
                   edges_ids, edges, mesh_edges, ret>>

\* lines 33-41: collect the CTRIA3 elements, raise on any other element
CollectElements ==
    /\ path = "read_mesh" /\ pc = "collect"
    /\ LET r == CollectTrias(elements, 1, <<>>)
       IN  /\ trias' = r.trias
           /\ tria_edges' = [k \in 1..Len(r.trias) |-> <<>>]
           /\ IF r.raised
              THEN pc' = "raised" /\ ret' = "NotImplementedError"
              ELSE pc' = "group" /\ ret' = ret
    /\ UNCHANGED <<path, elements, points, simplices, nodes, node_trias,
                   node_edges, node_index, edges_ids, edges, mesh_edges>>

\* lines 42-47
GroupEdges ==
    /\ path = "read_mesh" /\ pc = "group"
    /\ edges_ids' = GroupTrias(trias, 1, <<>>)
    /\ pc' = "edges"
    /\ UNCHANGED <<path, elements, points, simplices, nodes, node_trias,
                   node_edges, node_index, trias, tria_edges, edges, mesh_edges, ret>>

\* lines 48-53
MakeEdges ==
    /\ path = "read_mesh" /\ pc = "edges"
    /\ LET r == CreateEdges(edges_ids, 1, <<>>, node_edges)
       IN  edges' = r.edges /\ node_edges' = r.node_edges
    /\ pc' = "attach"
    /\ UNCHANGED <<path, elements, points, simplices, nodes, node_trias,
                   node_index, trias, tria_edges, edges_ids, mesh_edges, ret>>

\* lines 54-56
AttachToTrias ==
    /\ path = "read_mesh" /\ pc = "attach"
    /\ tria_edges' = AttachEdges(edges, 1, tria_edges)
    /\ pc' = "nodetrias"
    /\ UNCHANGED <<path, elements, points, simplices, nodes, node_trias,
                   node_edges, node_index, trias, edges_ids, edges, mesh_edges, ret>>

\* lines 57-63
NodeTriasReturn ==
    /\ path = "read_mesh" /\ pc = "nodetrias"
    /\ node_trias' = FillNodeTrias(trias, 1, node_trias)
    /\ mesh_edges' = edges
    /\ ret' = "mesh"
    /\ pc' = "done"
    /\ UNCHANGED <<path, elements, points, simplices, nodes, node_edges,
                   node_index, trias, tria_edges, edges_ids, edges>>

\* --------------------------------------------------------- read_delaunay
\* lines 91-104
MakeNodes ==
    /\ path = "read_delaunay" /\ pc = "start"
    /\ nodes' = DelaunayNodes(points, 0, <<>>)
    /\ node_trias' = [n \in DOMAIN nodes' |-> {}]
    /\ node_edges' = [n \in DOMAIN nodes' |-> {}]
    /\ node_index' = [n \in DOMAIN nodes' |-> {}]
    /\ pc' = "trias"
    /\ UNCHANGED <<path, elements, points, simplices, trias, tria_edges,
                   edges_ids, edges, mesh_edges, ret>>

\* lines 105-119
MakeTrias ==
    /\ path = "read_delaunay" /\ pc = "trias"
    /\ trias' = DelaunayTrias(simplices, 0, <<>>)
    /\ tria_edges' = [k \in 1..Len(simplices) |-> <<>>]
    /\ pc' = "group"
    /\ UNCHANGED <<path, elements, points, simplices, nodes, node_trias,
                   node_edges, node_index, edges_ids, edges, mesh_edges, ret>>

\* lines 120-124
DGroupEdges ==
    /\ path = "read_delaunay" /\ pc = "group"
    /\ edges_ids' = GroupTrias(trias, 1, <<>>)
    /\ pc' = "edges"
    /\ UNCHANGED <<path, elements, points, simplices, nodes, node_trias,
                   node_edges, node_index, trias, tria_edges, edges, mesh_edges, ret>>

\* lines 125-130
DMakeEdges ==
    /\ path = "read_delaunay" /\ pc = "edges"
    /\ LET r == CreateEdges(edges_ids, 1, <<>>, node_edges)
       IN  edges' = r.edges /\ node_edges' = r.node_edges
    /\ pc' = "attach"
    /\ UNCHANGED <<path, elements, points, simplices, nodes, node_trias,
                   node_index, trias, tria_edges, edges_ids, mesh_edges, ret>>

\* lines 131-133
DAttachToTrias ==
    /\ path = "read_delaunay" /\ pc = "attach"
    /\ tria_edges' = AttachEdges(edges, 1, tria_edges)
    /\ pc' = "nodetrias"
    /\ UNCHANGED <<path, elements, points, simplices, nodes, node_trias,
                   node_edges, node_index, trias, edges_ids, edges, mesh_edges, ret>>

\* lines 134-139
DNodeTriasReturn ==
    /\ path = "read_delaunay" /\ pc = "nodetrias"
    /\ node_trias' = FillNodeTrias(trias, 1, node_trias)
    /\ mesh_edges' = edges
    /\ ret' = "mesh"
    /\ pc' = "done"
    /\ UNCHANGED <<path, elements, points, simplices, nodes, node_edges,
                   node_index, trias, tria_edges, edges_ids, edges>>

NextDelaunay ==
    \/ MakeNodes \/ MakeTrias \/ DGroupEdges \/ DMakeEdges
    \/ DAttachToTrias \/ DNodeTriasReturn

Next ==
    \/ TagNodes \/ CollectElements \/ GroupEdges \/ MakeEdges
    \/ AttachToTrias \/ NodeTriasReturn
    \/ MakeNodes \/ MakeTrias \/ DGroupEdges \/ DMakeEdges
    \/ DAttachToTrias \/ DNodeTriasReturn

Spec == Init /\ [][Next]_vars

SpecMalformed == InitMalformed /\ [][NextDelaunay]_vars

\* ======================================================== properties
Done == pc = "done" /\ ret = "mesh"

\* the Edge records of mesh.edges and the keys they are stored under
MeshEdgeIdx == 1..Len(mesh_edges)
KeyOfEdge(id) ==
    LET i == CHOOSE j \in MeshEdgeIdx : mesh_edges[j].val.id = id
    IN  mesh_edges[i].key
StoredUnder(key) == {mesh_edges[i].val.id : i \in {j \in MeshEdgeIdx : mesh_edges[j].key = key}}
IsMeshEdge(id) == \E j \in MeshEdgeIdx : mesh_edges[j].val.id = id

\* local node pair i of a triangle: 1: nodes 0-1, 2: nodes 1-2, 3: nodes 2-0
LocalPair(t, i) == <<t.node_ids[i], t.node_ids[(i % 3) + 1]>>
LocalKey(t, i) == SortedPair(LocalPair(t, i)[1], LocalPair(t, i)[2])
LocalKeys(t) == {LocalKey(t, i) : i \in 1..3}
Unordered(k) == {k[1], k[2]}

TriaSet == Range(trias)
SharedKeys(t, u) == LocalKeys(t) \cap LocalKeys(u)

\* C1: after construction, for every triangle T and local position i,
\* T.edges[i] is the Edge whose key is the sorted pair of T's local node
\* pair i (the list follows the local enumeration, not the creation order).
C1_LocalOrder ==
    Done => \A t \in TriaSet : \A i \in 1..3 :
                /\ Len(tria_edges[t.eid]) >= i
                /\ IsMeshEdge(tria_edges[t.eid][i])
                /\ KeyOfEdge(tria_edges[t.eid][i]) = LocalKey(t, i)

\* C2: after construction, for every node N, N.trias is exactly the set of
\* ids of the triangles whose node list contains N, and N.edges is exactly
\* the set of Edges of mesh.edges whose key contains N; both are empty for
\* a node of no triangle.
C2_NodeSetsExact ==
    Done => \A n \in DOMAIN nodes :
                /\ node_trias[n] = {t.eid : t \in {u \in TriaSet : n \in Range(u.node_ids)}}
                /\ node_edges[n] =
                     {mesh_edges[i].val.id :
                         i \in {j \in MeshEdgeIdx : n \in Unordered(mesh_edges[j].key)}}

C2_Witness ==
    /\ Done
    /\ \E n \in DOMAIN nodes : node_trias[n] = {} /\ node_edges[n] = {}
    /\ \E n \in DOMAIN nodes : Cardinality(node_trias[n]) >= 2 /\ Cardinality(node_edges[n]) = 2

\* C3: after construction, every Edge has at least one supporting triangle,
\* every supporting triangle has the Edge in its edges list, and for every
\* triangle and each of its three keys the Edge stored under the key has the
\* triangle among its supporting triangles and is in the edges set of both
\* of its end nodes.
C3_EdgeTriaLinks ==
    Done =>
        /\ \A i \in MeshEdgeIdx :
              /\ mesh_edges[i].val.trias # <<>>
              /\ \A e \in Range(mesh_edges[i].val.trias) :
                    /\ e \in 1..Len(tria_edges)
                    /\ mesh_edges[i].val.id \in Range(tria_edges[e])
        /\ \A t \in TriaSet : \A k \in LocalKeys(t) :
              /\ StoredUnder(k) # {}
              /\ \A j \in MeshEdgeIdx : mesh_edges[j].key = k =>
                    /\ t.eid \in Range(mesh_edges[j].val.trias)
                    /\ mesh_edges[j].val.id \in node_edges[k[1]]
                    /\ mesh_edges[j].val.id \in node_edges[k[2]]

C3_Witness ==
    /\ Done
    /\ \E i \in MeshEdgeIdx : Len(mesh_edges[i].val.trias) = 2
    /\ \E i \in MeshEdgeIdx : Len(mesh_edges[i].val.trias) = 1

\* C4: mesh.edges never holds two entries whose keys are equal as unordered
\* node pairs; triangles that run through a node pair in opposite directions
\* share one Edge; the number of entries is the number of distinct unordered
\* node pairs that are a side of a triangle.
C4_EdgeKeysUnique ==
    Done =>
        /\ \A i, j \in MeshEdgeIdx :
              Unordered(mesh_edges[i].key) = Unordered(mesh_edges[j].key) => i = j
        /\ \A i, j \in MeshEdgeIdx : mesh_edges[i].val.id = mesh_edges[j].val.id => i = j
        /\ \A t, u \in TriaSet : \A a, b \in 1..3 :
              (LocalPair(t, a)[1] = LocalPair(u, b)[2] /\ LocalPair(t, a)[2] = LocalPair(u, b)[1])
                 => /\ Cardinality(StoredUnder(LocalKey(t, a))) = 1
                    /\ StoredUnder(LocalKey(t, a)) = StoredUnder(LocalKey(u, b))
        /\ Len(mesh_edges) =
              Cardinality({Unordered(LocalPair(t, a)) : t \in TriaSet, a \in 1..3})

C4_Witness ==
    /\ Done
    /\ \E t, u \in TriaSet : \E a, b \in 1..3 :
          /\ t.eid # u.eid
          /\ LocalPair(t, a)[1] > LocalPair(t, a)[2]
          /\ LocalPair(t, a)[1] = LocalPair(u, b)[2]
          /\ LocalPair(t, a)[2] = LocalPair(u, b)[1]
          /\ LocalKeys(t) # LocalKeys(u)

\* C10: after construction on triangles of three distinct nodes, every
\* triangle's edges list has length 3, has no duplicates and holds exactly
\* the three Edges stored under the triangle's three keys.
C10_ThreeEdges ==
    Done => \A t \in TriaSet :
                /\ Len(tria_edges[t.eid]) = 3
                /\ Cardinality(Range(tria_edges[t.eid])) = 3
                /\ Range(tria_edges[t.eid]) = UNION {StoredUnder(k) : k \in LocalKeys(t)}
                /\ \A k \in LocalKeys(t) : Cardinality(StoredUnder(k)) = 1

\* a triangle that shares edges and whose list is not in its local order
C10_Witness ==
    /\ Done
    /\ \E t \in TriaSet :
          /\ \E u \in TriaSet : u.eid # t.eid /\ SharedKeys(t, u) # {}
          /\ Len(tria_edges[t.eid]) = 3
          /\ \E i \in 1..3 : KeyOfEdge(tria_edges[t.eid][i]) # LocalKey(t, i)

\* C5: when an element handed to read_mesh is not a CTRIA3, the call ends
\* in NotImplementedError and returns no mesh, wherever the element stands
\* among the supported ones, and the error comes before any Edge is created
\* or any node's edges or trias set is filled.
HasUnsupported == \E i \in 1..Len(elements) : elements[i].type # "CTRIA3"

C5_UnsupportedRaises ==
    (path = "read_mesh" /\ HasUnsupported) =>
        /\ pc \in {"start", "collect", "raised"}
        /\ ret # "mesh"
        /\ pc = "raised" <=> ret = "NotImplementedError"
        /\ edges_ids = <<>> /\ edges = <<>> /\ mesh_edges = <<>>
        /\ \A n \in DOMAIN node_edges : node_edges[n] = {}
        /\ \A n \in DOMAIN node_trias : node_trias[n] = {}
        /\ \A e \in DOMAIN tria_edges : tria_edges[e] = <<>>

\* the unsupported element stands between two supported triangles
C5_Witness ==
    /\ pc = "raised" /\ ret = "NotImplementedError"
    /\ Len(elements) = 3
    /\ elements[1].type = "CTRIA3"
    /\ elements[2].type # "CTRIA3"
    /\ elements[3].type = "CTRIA3"
    /\ Len(trias) = 1

\* C6: a triangle that names fewer than three distinct nodes is never
\* turned into a mesh: no mesh is returned for it, and so no mesh with a
\* self-loop edge, with an Edge that lists a triangle twice or with a
\* triangle that lists an Edge twice.
Malformed == \E i \in 1..Len(simplices) : ~Distinct3(simplices[i])

C6_MalformedRejected ==
    /\ (Malformed /\ pc = "done") => ret # "mesh"
    /\ ret = "mesh" =>
          /\ \A i \in MeshEdgeIdx : mesh_edges[i].key[1] # mesh_edges[i].key[2]
          /\ \A i \in MeshEdgeIdx :
                Cardinality(Range(mesh_edges[i].val.trias)) = Len(mesh_edges[i].val.trias)
          /\ \A e \in DOMAIN tria_edges :
                Cardinality(Range(tria_edges[e])) = Len(tria_edges[e])

\* C7: read_delaunay on N points and M index triples makes exactly the
\* nodes 1..N (the point at 0-based position p is node p+1) and exactly the
\* triangles 1..M in input order, the triangle of (i1,i2,i3) over the nodes
\* (i1+1,i2+1,i3+1) in that order; every node, referenced or not, is in
\* mesh.nodes with its trias and edges sets and an empty index set.
Embed(pt) == IF Len(pt) = 2 THEN <<pt[1], pt[2], 0>> ELSE pt

C7_DelaunayIds ==
    path = "read_delaunay" =>
        /\ pc # "start" =>
              /\ DOMAIN nodes = 1..Len(points)
              /\ \A p \in 0..(Len(points) - 1) : nodes[p + 1] = Embed(points[p + 1])
              /\ DOMAIN node_trias = DOMAIN nodes
              /\ DOMAIN node_edges = DOMAIN nodes
              /\ DOMAIN node_index = DOMAIN nodes
              /\ \A n \in DOMAIN nodes : node_index[n] = {}
        /\ pc \notin {"start", "trias"} =>
              /\ Len(trias) = Len(simplices)
              /\ \A k \in 0..(Len(simplices) - 1) :
                    /\ trias[k + 1].eid = k + 1
                    /\ trias[k + 1].node_ids =
                          <<simplices[k + 1][1] + 1, simplices[k + 1][2] + 1,
                            simplices[k + 1][3] + 1>>

\* a 2D cloud with a point that no triple references
C7_Witness ==
    /\ path = "read_delaunay" /\ Done
    /\ Len(simplices) = 2
    /\ Len(points) > Len(simplices)
    /\ Len(points[1]) = 2
    /\ simplices[1][1] > simplices[1][2]
    /\ \E n \in DOMAIN nodes : node_trias[n] = {} /\ node_edges[n] = {}

\* C9: every Edge lists exactly the triangles that have its key among
\* their three keys, each once, in the order the triangles were processed;
\* three or more triangles on one edge are accepted and all listed; two
\* triangles sharing exactly one edge give 5 edges, the shared one with 2
\* supporting triangles and the other four with 1.
Supporters(key) ==
    LET has(k) == key \in LocalKeys(trias[k])
        F[k \in 0..Len(trias)] ==
            IF k = 0 THEN <<>>
            ELSE IF has(k) THEN Append(F[k - 1], trias[k].eid) ELSE F[k - 1]
    IN  F[Len(trias)]

C9_SupportingTrias ==
    Done =>
        /\ \A i \in MeshEdgeIdx : mesh_edges[i].val.trias = Supporters(mesh_edges[i].key)
        /\ (Len(trias) = 2 /\ Cardinality(SharedKeys(trias[1], trias[2])) = 1) =>
              /\ Len(mesh_edges) = 5
              /\ \A i \in MeshEdgeIdx :
                    Len(mesh_edges[i].val.trias) =
                        IF mesh_edges[i].key \in SharedKeys(trias[1], trias[2]) THEN 2 ELSE 1

\* a non-manifold edge: three triangles on one edge
C9_Witness ==
    /\ Done
    /\ \E i \in MeshEdgeIdx :
          /\ Len(mesh_edges[i].val.trias) = 3
          /\ mesh_edges[i].val.trias = <<1, 2, 3>>

\* two triangles sharing exactly one edge
C9_TwoTriasReached ==
    /\ Done
    /\ Len(trias) = 2 /\ Cardinality(SharedKeys(trias[1], trias[2])) = 1
    /\ Len(mesh_edges) = 5

\* C8: on the same connectivity (node ids 1..N, triangles 1..M with the
\* same node lists in the same order) read_mesh and read_delaunay give the
\* same edge keys, the same ordered supporting triangles per edge, the same
\* trias and edges sets per node and the same ordered edge keys per triangle.
KeyIn(es, id) ==
    LET i == CHOOSE j \in 1..Len(es) : es[j].val.id = id
    IN  es[i].key

\* what a caller sees of the adjacency, Edges named by their keys
View(es, nt, ne, te) ==
    [ keys     |-> {es[i].key : i \in 1..Len(es)},
      supports |-> {<<es[i].key, es[i].val.trias>> : i \in 1..Len(es)},
      ends     |-> {<<es[i].key, es[i].val.n1, es[i].val.n2>> : i \in 1..Len(es)},
      ntrias   |-> nt,
      nedges   |-> [n \in DOMAIN ne |-> {KeyIn(es, id) : id \in ne[n]}],
      tedges   |-> [e \in DOMAIN te |-> [i \in 1..Len(te[e]) |-> KeyIn(es, te[e][i])]] ]

\* the adjacency built over the triangles ts and the nodes 1..n
Adjacency(ts, n) ==
    LET ce == CreateEdges(GroupTrias(ts, 1, <<>>), 1, <<>>, [k \in 1..n |-> {}])
        te == AttachEdges(ce.edges, 1, [k \in 1..Len(ts) |-> <<>>])
        nt == FillNodeTrias(ts, 1, [k \in 1..n |-> {}])
    IN  View(ce.edges, nt, ce.node_edges, te)

ReadMeshView(elems, n) == Adjacency(CollectTrias(elems, 1, <<>>).trias, n)
ReadDelaunayView(simps, n) == Adjacency(DelaunayTrias(simps, 0, <<>>), n)

\* the same connectivity, as a deck and as index triples
AsCards(simps) ==
    [k \in 1..Len(simps) |->
        [type |-> "CTRIA3",
         node_ids |-> <<simps[k][1] + 1, simps[k][2] + 1, simps[k][3] + 1>>]]
AsSimplices(elems) ==
    [k \in 1..Len(elems) |->
        <<elems[k].node_ids[1] - 1, elems[k].node_ids[2] - 1, elems[k].node_ids[3] - 1>>]

====
